---- MODULE Spec2Model ----
(***************************************************************************)
(* NFA cellular automaton (model.py, agent.py).                            *)
(*                                                                         *)
(* A toroidal grid of cells, each a small nondeterministic automaton over  *)
(* {Alive, Dying, Stable, Chaotic}.  NFACAModel.step() samples the counts, *)
(* then the SimultaneousActivation scheduler calls step() on every agent   *)
(* (one action each) and afterwards advance() on every agent (one action). *)
(*                                                                         *)
(* Probabilities are held in hundredths: 0.7 is 70, 1 - p is 100 - p.      *)
(* The module-level random source is a seeded stream: the seed fixes a     *)
(* pattern of draws (rng_tape) that random.random() walks through, round   *)
(* and round; rng_pos is the place of the next draw.                       *)
(***************************************************************************)
EXTENDS Integers, Sequences, FiniteSets, TLC

\* ------------------------------------------------------------- bounds
\* The program's grid is 20 x 20; the model explores a small torus.
Width == 3
Height == 3
\* Length of the pattern of draws a seed stands for.
TapeLen == 4
\* Number of NFACAModel.step() calls explored.
MaxSteps == 5
\* Number of parameter changes made on a running model.
MaxChanges == 1

\* ------------------------------------------------------------- values
States == {"Alive", "Dying", "Stable", "Chaotic"}
Symbols == {"L", "M", "H"}
Keys == States \X Symbols

\* Values of the three probability parameters, in hundredths.
Probabilities == {0, 50, 100}
ChaosBiases == {20, 30, 50, 70, 80}
\* Values a caller can pass although they are no probabilities.
OutOfRangeValues == {-50, 150}
\* Values the chaos bias is moved to on a running model.
LiveChaosBiases == {20, 50, 80}
\* Values random.random() returns (it never returns 1.0), in hundredths.
DrawSet == {0, 99}

\* Seeds a model's own generator (model.random) can get from the operating system.
ModelSeeds == {1, 2}

Cells == (0 .. Width - 1) \X (0 .. Height - 1)
Tapes == [1 .. TapeLen -> DrawSet]

VARIABLES
    initial_alive,      \* constructor argument initial_alive
    branch_prob,        \* model.branch_prob
    chaos_bias,         \* model.chaos_bias
    disable_chaotic,    \* model.disable_chaotic
    BASE_TRANSITIONS,   \* model.BASE_TRANSITIONS
    agents,             \* model.schedule.agents, in insertion order (unique ids)
    grid,               \* model.grid: the list of agents held by each coordinate
    state,              \* agent.state, by unique id
    next_state,         \* agent.next_state, by unique id
    model_vars,         \* the datacollector's samples, oldest first
    steps,              \* model.schedule.steps
    pc,                 \* where model.step() stands: idle, step, advance, error
    idx,                \* the scheduler's position in its agent list
    rng_tape,           \* the seeded pattern of draws
    rng_pos,            \* place of the next draw in the pattern
    model_seed,         \* model._seed: what model.random, the model's own generator, starts from
    twin,               \* a second, independent run built from the same arguments
    snapshot,           \* history: agent.state of every agent when the last step() began
    drawn,              \* history: the draw each agent's step() took in that step, -1 if none
    params_read,        \* history: the parameters the last agent step() worked with
    changes,            \* history: number of parameter changes made since construction
    changed_at,         \* history: schedule.steps at the last parameter change, -1 if none
    grids               \* history: agent.state of every agent after 0, 1, ... steps

vars == <<initial_alive, branch_prob, chaos_bias, disable_chaotic,
          BASE_TRANSITIONS, agents, grid, state, next_state, model_vars,
          steps, pc, idx, rng_tape, rng_pos, model_seed, twin, snapshot, drawn,
          params_read, changes, changed_at, grids>>

params == <<initial_alive, branch_prob, chaos_bias, disable_chaotic>>
population == <<agents, grid>>
rng == <<rng_tape, rng_pos>>
own == <<model_seed>>
history == <<snapshot, drawn>>
knobs == <<changes, changed_at>>

\* ------------------------------------------------------------- random
\* random.random(): the draw at place pos of the seeded pattern.
random(tape, pos) == tape[pos + 1]

\* The place after one draw.
Advance(pos) == (pos + 1) % TapeLen

\* The place after n draws.
AdvanceBy(pos, n) == (pos + n) % TapeLen

\* model.random.random(): the draw at place pos of the stream the model's own
\* generator gives when it starts from seed.
OwnRandom(seed, pos) == IF (seed + pos) % 2 = 0 THEN 0 ELSE 99

\* A mutant of Draw: the agent draws from its model's own generator
\* (self.random), which NFACAModel never seeds.
DrawOwn(seeded, unseeded) == unseeded

\* The draw NFACellAgent.step takes: random.choices of the random module, the
\* process-wide generator a seed fixes, not the model's own generator.
Draw(seeded, unseeded) == seeded

\* ------------------------------------------------------------- table
\* The hand-written rules of NFACAModel.__init__.
BaseTable ==
    [k \in Keys |->
        CASE k = <<"Alive", "L">>   -> <<"Alive", "Stable">>
          [] k = <<"Alive", "M">>   -> <<"Dying", "Chaotic">>
          [] k = <<"Alive", "H">>   -> <<"Chaotic", "Dying">>
          [] k = <<"Dying", "L">>   -> <<"Stable", "Alive">>
          [] k = <<"Dying", "M">>   -> <<"Chaotic", "Alive">>
          [] k = <<"Dying", "H">>   -> <<"Chaotic", "Dying">>
          [] k = <<"Stable", "L">>  -> <<"Alive", "Stable">>
          [] k = <<"Stable", "M">>  -> <<"Dying", "Stable">>
          [] k = <<"Stable", "H">>  -> <<"Chaotic", "Stable">>
          [] k = <<"Chaotic", "L">> -> <<"Stable", "Alive">>
          [] k = <<"Chaotic", "M">> -> <<"Alive", "Dying">>
          [] k = <<"Chaotic", "H">> -> <<"Chaotic", "Dying">>]

IsChaotic(s) == s = "Chaotic"
NotChaotic(s) == s # "Chaotic"

\* sorted(l, key=lambda s: s != "Chaotic"): a stable sort, False before True.
ChaoticFirst(l) == SelectSeq(l, IsChaotic) \o SelectSeq(l, NotChaotic)

\* sorted(l, key=lambda s: s == "Chaotic").
ChaoticLast(l) == SelectSeq(l, NotChaotic) \o SelectSeq(l, IsChaotic)

\* A mutant of Reorder: the two thresholds belong to the reordering branches.
ReorderClosed(l, cb) ==
    IF cb >= 70 THEN ChaoticFirst(l)
    ELSE IF cb =< 30 THEN ChaoticLast(l)
    ELSE l

\* The reordering of one entry by the chaos bias.
Reorder(l, cb) ==
    IF cb > 70 THEN ChaoticFirst(l)
    ELSE IF cb < 30 THEN ChaoticLast(l)
    ELSE l

\* A mutant of Prune: nothing is removed.
PruneNothing(l, dc) == l

\* A mutant of Prune: Chaotic is removed only where it stands first.
PruneFirst(l, dc) ==
    IF dc /\ Len(l) > 1 /\ l[1] = "Chaotic" THEN Tail(l) ELSE l

\* A mutant of Prune: Chaotic is removed only where it stands last.
PruneLast(l, dc) ==
    IF dc /\ Len(l) > 1 /\ l[Len(l)] = "Chaotic" THEN SubSeq(l, 1, Len(l) - 1) ELSE l

\* The pruning of one entry, with its fallback.
Prune(l, dc) ==
    IF dc
    THEN LET kept == SelectSeq(l, NotChaotic)
         IN  IF kept = << >> THEN <<"Stable">> ELSE kept
    ELSE l

\* A mutant of get_transitions: the entry is saved after the loop, so only the
\* last key of the base table gets one.
get_transitions_last(base, cb, dc) ==
    [k \in {<<"Chaotic", "H">>} |-> Prune(Reorder(base[k], cb), dc)]

\* NFACAModel.get_transitions(): the table it returns.
get_transitions(base, cb, dc) ==
    [k \in DOMAIN base |-> Prune(Reorder(base[k], cb), dc)]

\* A mutant of BaseAfterRewire: the entries are rewired in place, no copy made.
BaseRewiredInPlace(base, cb, dc) == get_transitions(base, cb, dc)

\* What get_transitions() leaves in BASE_TRANSITIONS: it works on a copy of
\* each entry, and sorted() and the comprehension build new lists.
BaseAfterRewire(base, cb, dc) == base

\* ------------------------------------------------------------- grid
\* MultiGrid.get_neighborhood(pos, moore=True, include_center=False) on the
\* torus: the distinct coordinates one step away in both axes, pos left out.
TorusNeighborhood ==
    [c \in Cells |->
        {<<(c[1] + dx + Width) % Width, (c[2] + dy + Height) % Height>> :
            dx \in {-1, 0, 1}, dy \in {-1, 0, 1}} \ {c}]

Neighborhood(c) == TorusNeighborhood[c]

\* MultiGrid.get_neighbors: every agent held by a coordinate of the neighbourhood.
Neighbors(g, c) ==
    UNION {{<<n, i>> : i \in 1 .. Len(g[n])} : n \in Neighborhood(c)}

\* A mutant of NeighborState: the neighbour's staged state is read.
NeighborStaged(st, nxt, n) == nxt[n]

\* What an agent's step() reads of neighbour n: n.state, never n.next_state.
NeighborState(st, nxt, n) == st[n]

\* The number of neighbours whose state is Alive.
AliveNeighbors(g, st, nxt, c) ==
    Cardinality({p \in Neighbors(g, c) : NeighborState(st, nxt, g[p[1]][p[2]]) = "Alive"})

\* A mutant of InputSymbol: the two thresholds are compared with <.
InputSymbolStrict(n) == IF n < 2 THEN "L" ELSE IF n < 4 THEN "M" ELSE "H"

\* The input symbol for a number of Alive neighbours.
InputSymbol(n) == IF n <= 2 THEN "L" ELSE IF n <= 4 THEN "M" ELSE "H"

\* ------------------------------------------------------------- agent
\* A mutant of ChoicesIndex: the two weights are given the other way round.
ChoicesIndexSwapped(bp, r) ==
    LET total == (100 - bp) + bp
    IN  IF r * total < (100 - bp) * 100 THEN 1 ELSE 2

\* A mutant of ChoicesIndex: a draw equal to the first cumulative weight still
\* picks the first entry.
ChoicesIndexClosed(bp, r) ==
    LET total == bp + (100 - bp)
    IN  IF r * total =< bp * 100 THEN 1 ELSE 2

\* random.choices(population, weights=[bp, 1 - bp], k=1) with two entries:
\* the cumulative weights are [bp, bp + (1 - bp)], and the entry picked is
\* the first exactly when random() * total is below the first of them.
ChoicesIndex(bp, r) ==
    LET total == bp + (100 - bp)
    IN  IF r * total < bp * 100 THEN 1 ELSE 2

\* Whether NFACellAgent.step draws: only when there is not exactly one candidate.
Draws(possible) == Len(possible) # 1

\* Whether random.choices accepts the weights: two weights need two candidates.
WeightsFit(possible) == Len(possible) = 2

\* The state NFACellAgent.step resolves, before the override.
Resolve(possible, bp, r) ==
    IF Len(possible) = 1 THEN possible[1]
    ELSE possible[ChoicesIndex(bp, r)]

\* The override after the draw.
Override(s, dc) == IF dc /\ s = "Chaotic" THEN "Stable" ELSE s

\* The candidates NFACellAgent.step looks up for agent a.
PossibleStates(base, g, st, nxt, a, cb, dc) ==
    get_transitions(base, cb, dc)[<<st[a], InputSymbol(AliveNeighbors(g, st, nxt, a))>>]

\* The state NFACellAgent.step stages for agent a when the draw is r.
StagedState(base, g, st, nxt, a, bp, cb, dc, r) ==
    Override(Resolve(PossibleStates(base, g, st, nxt, a, cb, dc), bp, r), dc)

\* ------------------------------------------------------------- model
\* The order in which __init__ creates the agents: for x: for y.
CreationOrder == [k \in 1 .. Width * Height |-> <<(k - 1) \div Height, (k - 1) % Height>>]

\* A mutant of InitialState: a draw equal to initial_alive also gives Alive.
InitialStateClosed(ia, tape, k) ==
    IF random(tape, AdvanceBy(0, k - 1)) =< ia THEN "Alive" ELSE "Stable"

\* The k-th agent's initial state: one draw each, Alive when it is below initial_alive.
InitialState(ia, tape, k) ==
    IF random(tape, AdvanceBy(0, k - 1)) < ia THEN "Alive" ELSE "Stable"

\* The states of all agents after construction, by unique id.
InitialStates(ia, tape) ==
    [c \in Cells |-> InitialState(ia, tape, (c[1] * Height) + c[2] + 1)]

\* A mutant of InitialAgents: the last agent made is never added to the scheduler.
InitialAgentsShort == SubSeq(CreationOrder, 1, Width * Height - 1)

\* schedule.agents after construction: every agent added once, in creation order.
InitialAgents == CreationOrder

\* grid after construction: place_agent(agent, (x, y)) for the agent made at (x, y).
InitialGrid == [c \in Cells |-> <<c>>]

\* NFACAModel.count_state(s).
count_state(ag, st, s) == Cardinality({k \in 1 .. Len(ag) : st[ag[k]] = s})

\* One sample of the datacollector's four reporters.
Collect(ag, st) == [s \in States |-> count_state(ag, st, s)]

\* A mutant of Sample: collect() is called twice in a row.
SampleTwice(mv, ag, st) == Append(Append(mv, Collect(ag, st)), Collect(ag, st))

\* datacollector.collect(model): one more sample, after those taken before.
Sample(mv, ag, st) == Append(mv, Collect(ag, st))

\* NFACAModel.__init__ with the given arguments and seed of the random module,
\* for a first run whose own generator starts from seed1 and a second whose
\* own generator starts from seed2 (Model.__init__ is given no seed, so each
\* model takes one from the operating system).
ConstructRuns(ia, bp, cb, dc, tape, seed1, seed2) ==
    /\ initial_alive = ia
    /\ branch_prob = bp
    /\ chaos_bias = cb
    /\ disable_chaotic = dc
    /\ BASE_TRANSITIONS = BaseTable
    /\ agents = InitialAgents
    /\ grid = InitialGrid
    /\ state = InitialStates(ia, tape)
    /\ next_state = InitialStates(ia, tape)
    /\ model_vars = << >>
    /\ steps = 0
    /\ pc = "idle"
    /\ idx = 0
    /\ rng_tape = tape
    /\ rng_pos = AdvanceBy(0, Width * Height)
    /\ model_seed = seed1
    /\ twin = [state |-> InitialStates(ia, tape),
               next_state |-> InitialStates(ia, tape),
               rng_pos |-> AdvanceBy(0, Width * Height),
               model_seed |-> seed2,
               steps |-> 0]
    /\ snapshot = InitialStates(ia, tape)
    /\ drawn = [c \in Cells |-> -1]
    /\ params_read = <<bp, cb, dc>>
    /\ changes = 0
    /\ changed_at = -1
    /\ grids = <<InitialStates(ia, tape)>>

\* NFACAModel.__init__ where one run is followed: no code of the repository
\* reads model.random, and its seed is not told apart.
Construct(ia, bp, cb, dc, tape) == ConstructRuns(ia, bp, cb, dc, tape, 1, 1)

Init ==
    \E ia \in Probabilities, bp \in Probabilities, cb \in ChaosBiases,
       dc \in BOOLEAN, tape \in Tapes :
        Construct(ia, bp, cb, dc, tape)

\* NFACAModel.step(), first half: the datacollector samples the counts, then
\* the scheduler starts its pass over the agents.
BeginStep ==
    /\ pc = "idle"
    /\ steps < MaxSteps
    /\ model_vars' = Sample(model_vars, agents, state)
    /\ pc' = "step"
    /\ idx' = 1
    /\ snapshot' = state
    /\ drawn' = [c \in Cells |-> -1]
    /\ UNCHANGED <<params, BASE_TRANSITIONS, population, state, next_state,
                   steps, rng, own, twin, params_read, knobs, grids>>

\* A mutant of ParamsRead: the parameters are those of an earlier call, kept.
ParamsKept(live, kept) == kept

\* A mutant of ParamsRead: disable_chaotic is the one of an earlier call, kept.
ParamsFlagKept(live, kept) == <<live[1], live[2], kept[3]>>

\* The parameters an agent's step() works with: model.branch_prob,
\* model.chaos_bias and model.disable_chaotic as they are when it runs.
ParamsRead(live, kept) == live

\* The scheduler calls step() on the agent at idx, whose draw (if it takes one) is r.
AgentStepWith(r) ==
    /\ pc = "step"
    /\ LET a == agents[idx]
           p == ParamsRead(<<branch_prob, chaos_bias, disable_chaotic>>, params_read)
           possible == PossibleStates(BASE_TRANSITIONS, grid, state, next_state, a,
                                      p[2], p[3])
       IN  /\ params_read' = p
           /\ BASE_TRANSITIONS' = BaseAfterRewire(BASE_TRANSITIONS, p[2], p[3])
           /\ IF Draws(possible) /\ ~WeightsFit(possible)
              THEN /\ pc' = "error"
                   /\ UNCHANGED <<next_state, rng_pos, idx, drawn>>
              ELSE /\ next_state' =
                         [next_state EXCEPT ![a] =
                             StagedState(BASE_TRANSITIONS, grid, state, next_state, a,
                                         p[1], p[2], p[3], r)]
                   /\ rng_pos' = IF Draws(possible) THEN Advance(rng_pos) ELSE rng_pos
                   /\ drawn' = IF Draws(possible) THEN [drawn EXCEPT ![a] = r] ELSE drawn
                   /\ IF idx < Len(agents)
                      THEN /\ idx' = idx + 1
                           /\ pc' = "step"
                      ELSE /\ idx' = 0
                           /\ pc' = "advance"
    /\ UNCHANGED <<params, population, state, model_vars, steps, rng_tape, own,
                   twin, snapshot, knobs, grids>>

\* The scheduler calls step() on the agent at idx; its draw is the next one of
\* the seeded stream.
AgentStep ==
    AgentStepWith(Draw(random(rng_tape, rng_pos), OwnRandom(model_seed, rng_pos)))

\* A mutant of AdvanceAll: the loop is left after the first agent's advance().
AdvanceFirst(ag, st, nxt) ==
    [a \in DOMAIN st |-> IF ag # << >> /\ ag[1] = a THEN nxt[a] ELSE st[a]]

\* The scheduler's second loop: advance() on every agent of its list.
AdvanceAll(ag, st, nxt) ==
    [a \in DOMAIN st |-> IF \E k \in 1 .. Len(ag) : ag[k] = a THEN nxt[a] ELSE st[a]]

\* Once every agent's step() has run the scheduler calls advance() on every
\* agent, counts the step, and model.step() returns.
AdvanceAgents ==
    /\ pc = "advance"
    /\ state' = AdvanceAll(agents, state, next_state)
    /\ idx' = 0
    /\ pc' = "idle"
    /\ steps' = steps + 1
    /\ grids' = Append(grids, AdvanceAll(agents, state, next_state))
    /\ UNCHANGED <<params, BASE_TRANSITIONS, population, next_state, model_vars,
                   rng, own, twin, history, params_read, knobs>>

Next == BeginStep \/ AgentStep \/ AdvanceAgents

\* A model built from parameters in [0, 1], stepped with its parameters left alone.
Spec == Init /\ [][Next]_vars

\* ------------------------------------------------------------- construction
\* Arguments for the constructor, in and out of [0, 1].
ConfigValues == {50} \cup OutOfRangeValues

InitConfig ==
    \E ia \in ConfigValues, bp \in ConfigValues, cb \in ConfigValues,
       dc \in BOOLEAN, tape \in Tapes :
        Construct(ia, bp, cb, dc, tape)

\* A model built from any arguments, then stepped.
SpecConfig == InitConfig /\ [][Next]_vars

\* ------------------------------------------------------------- live parameters
\* The arguments the server of run.py builds the model with: the sliders' defaults.
InitLive == \E tape \in Tapes : Construct(30, 50, 20, FALSE, tape)

\* model.branch_prob is assigned between two step() calls.
SetBranchProb ==
    /\ pc = "idle"
    /\ steps < MaxSteps
    /\ changes < MaxChanges
    /\ \E v \in Probabilities \ {branch_prob} : branch_prob' = v
    /\ changes' = changes + 1
    /\ changed_at' = steps
    /\ UNCHANGED <<initial_alive, chaos_bias, disable_chaotic, BASE_TRANSITIONS,
                   population, state, next_state, model_vars, steps, pc, idx, rng,
                   own, twin, history, params_read, grids>>

\* model.chaos_bias is assigned between two step() calls.
SetChaosBias ==
    /\ pc = "idle"
    /\ steps < MaxSteps
    /\ changes < MaxChanges
    /\ \E v \in LiveChaosBiases \ {chaos_bias} : chaos_bias' = v
    /\ changes' = changes + 1
    /\ changed_at' = steps
    /\ UNCHANGED <<initial_alive, branch_prob, disable_chaotic, BASE_TRANSITIONS,
                   population, state, next_state, model_vars, steps, pc, idx, rng,
                   own, twin, history, params_read, grids>>

\* model.disable_chaotic is assigned between two step() calls.
SetDisableChaotic ==
    /\ pc = "idle"
    /\ steps < MaxSteps
    /\ changes < MaxChanges
    /\ disable_chaotic' = ~disable_chaotic
    /\ changes' = changes + 1
    /\ changed_at' = steps
    /\ UNCHANGED <<initial_alive, branch_prob, chaos_bias, BASE_TRANSITIONS,
                   population, state, next_state, model_vars, steps, pc, idx, rng,
                   own, twin, history, params_read, grids>>

NextLive ==
    BeginStep \/ AgentStep \/ AdvanceAgents
        \/ SetBranchProb \/ SetChaosBias \/ SetDisableChaotic

\* A model built with the sliders' defaults, its parameters changed while it runs.
SpecLive == InitLive /\ [][NextLive]_vars

\* ------------------------------------------------------------- rewiring
\* Every chaos bias and either setting of disable_chaotic, the two other
\* arguments at one half.
InitRewire ==
    \E cb \in ChaosBiases, dc \in BOOLEAN, tape \in Tapes :
        Construct(50, 50, cb, dc, tape)

\* A model stepped under each way get_transitions() can rewire the table.
SpecRewire == InitRewire /\ [][Next]_vars

\* ------------------------------------------------------------- switch
\* The server's model after a reset with the chaos bias slider moved: the other
\* sliders at their defaults, Chaotic enabled.
InitSwitch ==
    \E cb \in LiveChaosBiases, tape \in Tapes : Construct(30, 50, cb, FALSE, tape)

NextSwitch == BeginStep \/ AgentStep \/ AdvanceAgents \/ SetDisableChaotic

\* A model built with Chaotic enabled, whose disable_chaotic is switched while it runs.
SpecSwitch == InitSwitch /\ [][NextSwitch]_vars

\* ------------------------------------------------------------- second run
RECURSIVE StageAll(_, _, _, _, _, _, _, _, _, _)
\* The scheduler's first loop from the k-th agent on: every step() in turn,
\* in a run whose own generator starts from seed.
\* Yields the staged states and the place of the next draw.
StageAll(k, base, ag, g, st, nxt, p, tape, pos, seed) ==
    IF k > Len(ag)
    THEN [next_state |-> nxt, rng_pos |-> pos]
    ELSE LET a == ag[k]
             possible == PossibleStates(base, g, st, nxt, a, p[2], p[3])
             staged == StagedState(base, g, st, nxt, a, p[1], p[2], p[3],
                                   Draw(random(tape, pos), OwnRandom(seed, pos)))
         IN  StageAll(k + 1, base, ag, g, st, [nxt EXCEPT ![a] = staged], p, tape,
                      IF Draws(possible) THEN Advance(pos) ELSE pos, seed)

\* One whole step() of the second run.
TwinAfterStep(t) ==
    LET staged == StageAll(1, BASE_TRANSITIONS, agents, grid, t.state, t.next_state,
                           <<branch_prob, chaos_bias, disable_chaotic>>,
                           rng_tape, t.rng_pos, t.model_seed)
    IN  [state |-> AdvanceAll(agents, t.state, staged.next_state),
         next_state |-> staged.next_state,
         rng_pos |-> staged.rng_pos,
         model_seed |-> t.model_seed,
         steps |-> t.steps + 1]

\* The second run makes the step the first run has just completed.
TwinStep ==
    /\ twin.steps < steps
    /\ twin' = TwinAfterStep(twin)
    /\ UNCHANGED <<params, BASE_TRANSITIONS, population, state, next_state,
                   model_vars, steps, pc, idx, rng, own, history, params_read,
                   knobs, grids>>

\* The first run starts a step once the second has caught up.
BeginStepPaired == BeginStep /\ twin.steps = steps

NextTwin == BeginStepPaired \/ AgentStep \/ AdvanceAgents \/ TwinStep

\* Two models built from the same arguments with the random module seeded
\* alike, each with a generator of its own started from whatever seed it got.
InitTwin ==
    \E ia \in Probabilities, bp \in Probabilities, cb \in LiveChaosBiases,
       dc \in BOOLEAN, tape \in Tapes, seed1 \in ModelSeeds, seed2 \in ModelSeeds :
        ConstructRuns(ia, bp, cb, dc, tape, seed1, seed2)

\* Two independent runs with the same arguments and the same seed of the
\* random module, step by step.
SpecTwin == InitTwin /\ [][NextTwin]_vars

\* ------------------------------------------------------------- properties
Range(l) == {l[i] : i \in 1 .. Len(l)}

\* The table the agents of the current step look their candidates up in.
CurrentTable == get_transitions(BASE_TRANSITIONS, chaos_bias, disable_chaotic)

\* C1. Population conservation: at every moment the four per-state counts add
\* up to width * height, every coordinate holds exactly one cell (the one made
\* for it), and the scheduler holds every cell exactly once.
C1_PopulationConserved ==
    /\ count_state(agents, state, "Alive") + count_state(agents, state, "Dying")
         + count_state(agents, state, "Stable") + count_state(agents, state, "Chaotic")
       = Width * Height
    /\ \A c \in Cells : grid[c] = <<c>>
    /\ Len(agents) = Width * Height
    /\ Range(agents) = Cells

\* C1 witness: two steps are done and the population is spread over several states.
C1_Witness ==
    /\ pc = "idle"
    /\ steps >= 2
    /\ count_state(agents, state, "Chaotic") > 0
    /\ count_state(agents, state, "Dying") > 0
    /\ count_state(agents, state, "Alive") > 0

\* C2. Chaotic exclusion: with disable_chaotic set from construction on, no
\* agent's state or staged state is ever Chaotic, and no list of the table
\* get_transitions() returns holds Chaotic.
C2_ChaoticExcluded ==
    disable_chaotic =>
        /\ \A a \in Cells : state[a] # "Chaotic" /\ next_state[a] # "Chaotic"
        /\ \A k \in DOMAIN CurrentTable : "Chaotic" \notin Range(CurrentTable[k])

\* C2 witness: the flag is set, the bias and the branch probability both favour
\* Chaotic, and a step has turned a cell Dying through a pruned entry.
C2_Witness ==
    /\ disable_chaotic
    /\ chaos_bias = 80
    /\ branch_prob = 100
    /\ pc = "idle"
    /\ steps >= 1
    /\ \E a \in Cells : state[a] = "Dying"

\* Whether some agent's step() has run in the step() under way, and the last
\* agent whose step() has run.
SomeStepRun == pc = "step" /\ idx > 1
LastRun == agents[idx - 1]

\* The state agent a stages when every state it reads is the one in st.
StagedFrom(st, a) ==
    StagedState(BASE_TRANSITIONS, grid, st, st, a, branch_prob, chaos_bias,
                disable_chaotic, drawn[a])

\* C3. Simultaneity: while agents compute, no agent's state has changed since
\* the step began; what an agent stages (the one whose step() has just run,
\* and all of them once the last has run) is fixed by the states at the start
\* of the step and its own draw; and so is the grid once the step is done,
\* whatever the order of the agents.
C3_Simultaneity ==
    /\ pc \in {"step", "advance"} => state = snapshot
    /\ SomeStepRun => next_state[LastRun] = StagedFrom(snapshot, LastRun)
    /\ pc = "advance" =>
           \A a \in Cells : next_state[a] = StagedFrom(snapshot, a)
    /\ (pc = "idle" /\ steps > 0) =>
           \A a \in Cells : state[a] = StagedFrom(snapshot, a)

\* C3 witness: a step is done, and some cell would have staged another state
\* had it read the states the step committed.
C3_Witness ==
    /\ pc = "idle"
    /\ steps = 1
    /\ \E a \in Cells :
           StagedState(BASE_TRANSITIONS, grid, [state EXCEPT ![a] = snapshot[a]],
                       state, a, branch_prob, chaos_bias, disable_chaotic, drawn[a])
             # state[a]

\* C4. Non-empty candidates: the table get_transitions() returns has an entry
\* for every (state, symbol), and every entry holds at least one candidate.
C4_NonEmptyCandidates ==
    /\ DOMAIN CurrentTable = Keys
    /\ \A k \in Keys : Len(CurrentTable[k]) >= 1

\* C4 witness: with Chaotic disabled an agent has looked up an entry that
\* pruning cut down to one candidate.
C4_Witness ==
    /\ disable_chaotic
    /\ pc = "advance"
    /\ \E a \in Cells :
           Len(PossibleStates(BASE_TRANSITIONS, grid, snapshot, snapshot, a,
                              chaos_bias, disable_chaotic)) = 1

\* How many of a hundred evenly spread draws make NFACellAgent.step resolve
\* the candidates l to Chaotic.
ChaoticChance(l, bp) ==
    Cardinality({r \in 0 .. 99 : Resolve(l, bp, r) = "Chaotic"})

\* C5. Bias monotonicity: with Chaotic enabled and the branch probability as
\* it is, every entry resolves to Chaotic at chaos bias 0.8 at least as often
\* as at chaos bias 0.2.
C5_BiasMonotone ==
    ~disable_chaotic =>
        \A k \in Keys :
            ChaoticChance(get_transitions(BASE_TRANSITIONS, 80, FALSE)[k], branch_prob)
              >= ChaoticChance(get_transitions(BASE_TRANSITIONS, 20, FALSE)[k], branch_prob)

AllIn(st, s) == \A a \in Cells : st[a] = s

\* C6. All cells Alive, branch probability 1, chaos bias 0.5, Chaotic enabled:
\* every cell sees 8 Alive neighbours and the symbol H, and one step() later
\* every cell is Chaotic and the other three counts are 0.
C6_AllAliveTurnsChaotic ==
    /\ AllIn(state, "Alive") =>
          \A a \in Cells :
             /\ AliveNeighbors(grid, state, state, a) = 8
             /\ InputSymbol(AliveNeighbors(grid, state, state, a)) = "H"
    /\ ( /\ pc = "idle" /\ steps >= 1 /\ AllIn(snapshot, "Alive")
         /\ branch_prob = 100 /\ chaos_bias = 50 /\ ~disable_chaotic )
       => /\ AllIn(state, "Chaotic")
          /\ count_state(agents, state, "Chaotic") = Width * Height
          /\ count_state(agents, state, "Alive") = 0
          /\ count_state(agents, state, "Dying") = 0
          /\ count_state(agents, state, "Stable") = 0

\* C6 witness: the scenario's step has been made.
C6_Witness ==
    /\ pc = "idle" /\ steps = 1 /\ AllIn(snapshot, "Alive")
    /\ branch_prob = 100 /\ chaos_bias = 50 /\ ~disable_chaotic

\* C7. The same scenario with Chaotic disabled: pruning leaves [Dying] for
\* (Alive, H), and one step() later every cell is Dying.
C7_AllAliveTurnsDying ==
    /\ (disable_chaotic /\ chaos_bias = 50) =>
          CurrentTable[<<"Alive", "H">>] = <<"Dying">>
    /\ ( /\ pc = "idle" /\ steps >= 1 /\ AllIn(snapshot, "Alive")
         /\ branch_prob = 100 /\ chaos_bias = 50 /\ disable_chaotic )
       => /\ AllIn(state, "Dying")
          /\ count_state(agents, state, "Dying") = Width * Height

\* C7 witness: the scenario's step has been made with Chaotic disabled.
C7_Witness ==
    /\ pc = "idle" /\ steps = 1 /\ AllIn(snapshot, "Alive")
    /\ branch_prob = 100 /\ chaos_bias = 50 /\ disable_chaotic

\* C8. Determinism under a fixed seed: two runs that start from the same grid
\* with the same parameters and the random module seeded alike have, whenever
\* they have made the same number of steps, the same grids (and staged states,
\* and place of their next draw), whatever each run's own generator holds.
C8_SameSeedSameGrid ==
    (pc = "idle" /\ twin.steps = steps) =>
        /\ twin.state = state
        /\ twin.next_state = next_state
        /\ twin.rng_pos = rng_pos

\* C8 witness: the two runs' own generators started from different seeds,
\* both runs have made two steps or more, and the last step took draws of
\* both kinds with an even branch probability.
C8_Witness ==
    /\ model_seed # twin.model_seed
    /\ pc = "idle" /\ steps >= 2 /\ twin.steps = steps
    /\ branch_prob = 50
    /\ \E a \in Cells : drawn[a] = 0
    /\ \E a \in Cells : drawn[a] = 99

OutOfRange(v) == v < 0 \/ v > 100

\* C9. A probability argument outside [0, 1] makes construction fail: no
\* agent is made and nothing can be stepped.
C9_OutOfRangeRejected ==
    (OutOfRange(initial_alive) \/ OutOfRange(branch_prob) \/ OutOfRange(chaos_bias))
        => (agents = << >> /\ steps = 0)

LiveParams == <<branch_prob, chaos_bias, disable_chaotic>>

\* The state agent a stages from the states st under the parameters p.
StagedUnder(st, a, p) ==
    StagedState(BASE_TRANSITIONS, grid, st, st, a, p[1], p[2], p[3], drawn[a])

\* C10. Parameters changed between two step() calls: every agent of the step
\* under way resolves its transition with the parameters as they are now (the
\* one whose step() has just run, and all of them once the last has run), and
\* the grid a completed step left is the one the parameters of that step
\* gave, whatever was changed since.
C10_ChangeAppliesToNextStep ==
    /\ SomeStepRun =>
          /\ params_read = LiveParams
          /\ next_state[LastRun] = StagedUnder(snapshot, LastRun, LiveParams)
    /\ pc = "advance" =>
          /\ params_read = LiveParams
          /\ \A a \in Cells : next_state[a] = StagedUnder(snapshot, a, LiveParams)
    /\ (pc = "idle" /\ steps > 0) =>
          \A a \in Cells : state[a] = StagedUnder(snapshot, a, params_read)

\* C10 witness: a parameter was changed after a completed step, the next step
\* is done, and some cell that drew got a state the sliders' defaults, in
\* force before the change, would not have given it.
C10_Witness ==
    /\ pc = "idle" /\ changes = 1 /\ changed_at >= 1 /\ steps = changed_at + 1
    /\ \E a \in Cells :
          /\ drawn[a] # -1
          /\ state[a] # StagedUnder(snapshot, a, <<50, 20, FALSE>>)

\* The number of samples taken so far: one per step() begun.
StepsBegun == IF pc = "idle" THEN steps ELSE steps + 1

\* Whether the samples have just been added to, or no agent is computing.
SamplesSettled == pc # "step" \/ idx = 1

\* C11. Telemetry ordering: every step() begun has taken exactly one sample,
\* and (looked at right after a sample is taken, once all agents have
\* computed, and between steps) the k-th sample holds the four counts of the
\* grid as it was after k - 1 steps, the first those of the initial grid;
\* while a step() is under way its sample is of the grid no transition of
\* that step has touched.
C11_SampleBeforeStep ==
    /\ Len(grids) = steps + 1
    /\ Len(model_vars) = StepsBegun
    /\ SamplesSettled => \A k \in 1 .. Len(model_vars) :
          /\ DOMAIN model_vars[k] = States
          /\ \A s \in States :
                model_vars[k][s] = Cardinality({a \in Cells : grids[k][a] = s})
    /\ pc \in {"step", "advance"} => grids[Len(model_vars)] = state

\* C11 witness: three samples are taken, and the third differs from the second
\* and from the counts of the grid the third step has just left.
C11_Witness ==
    /\ pc = "idle" /\ steps = 3
    /\ model_vars[3] # model_vars[2]
    /\ model_vars[3] # Collect(agents, state)

\* How often s stands in l.
Occurrences(l, s) == Cardinality({i \in 1 .. Len(l) : l[i] = s})

\* C12. Bias reordering: with Chaotic enabled every list of the table
\* get_transitions() returns is a permutation of the hand-written list; Chaotic
\* (where the list has it) stands first above 0.7 and last below 0.3; from 0.3
\* to 0.7, both ends included, the list is the hand-written one; and the other
\* candidates always keep their order.
C12_HalfOpenThresholds ==
    ~disable_chaotic =>
        \A k \in Keys :
            LET l == CurrentTable[k]
                b == BaseTable[k]
            IN  /\ Len(l) = Len(b)
                /\ \A s \in Range(l) \cup Range(b) : Occurrences(l, s) = Occurrences(b, s)
                /\ (chaos_bias > 70 /\ "Chaotic" \in Range(b)) => l[1] = "Chaotic"
                /\ (chaos_bias < 30 /\ "Chaotic" \in Range(b)) => l[Len(l)] = "Chaotic"
                /\ (chaos_bias >= 30 /\ chaos_bias =< 70) => l = b
                /\ SelectSeq(l, NotChaotic) = SelectSeq(b, NotChaotic)

\* C12 witness: the chaos bias is exactly 0.7, a step is done, and some cell
\* got a state it would not have got with Chaotic moved to the front.
C12_Witness ==
    /\ pc = "idle" /\ steps >= 1
    /\ chaos_bias = 70 /\ ~disable_chaotic
    /\ \E a \in Cells :
          state[a] # StagedUnder(snapshot, a, <<branch_prob, 80, FALSE>>)

\* C13. Staged equals current at observable times: after construction and
\* after every completed step(), until the next one begins to compute, every
\* cell's next_state is its state; and a cell's state only ever changes in the
\* advance() calls that end a step(), never while the agents compute.
C13_StagedEqualsCurrent ==
    /\ [](pc = "idle" => \A a \in Cells : next_state[a] = state[a])
    /\ [][state' # state => (pc = "advance" /\ pc' = "idle")]_vars

\* C13 witness: two steps are done, and the last one gave some cell a state
\* other than the one it had, which is also the state it has staged.
C13_Witness ==
    /\ pc = "idle" /\ steps >= 2
    /\ \E a \in Cells : state[a] # snapshot[a] /\ next_state[a] = state[a]

\* The distance of two coordinates along an axis of length n that wraps round.
WrapDistance(i, j, n) ==
    IF (i - j + n) % n < (j - i + n) % n THEN (i - j + n) % n ELSE (j - i + n) % n

\* Whether d is one of the cells around c on the torus, c itself left out.
Adjacent(c, d) ==
    /\ d # c
    /\ WrapDistance(c[1], d[1], Width) =< 1
    /\ WrapDistance(c[2], d[2], Height) =< 1

\* The cells around each cell.
Around == [c \in Cells |-> {d \in Cells : Adjacent(c, d)}]

\* The number of cells around c that are Alive in st.
AliveAround(st, c) == Cardinality({d \in Around[c] : st[d] = "Alive"})

\* The density classes, count by count.
SymbolOf(n) ==
    CASE n \in {0, 1, 2} -> "L"
      [] n \in {3, 4} -> "M"
      [] n \in {5, 6, 7, 8} -> "H"

\* What the step() of the agent at c reads of the grid is rightly classified.
Classified(c) ==
    LET n == AliveNeighbors(grid, state, next_state, c)
    IN  /\ Cardinality(Neighbors(grid, c)) = 8
        /\ c \notin Neighborhood(c)
        /\ n \in 0 .. 8
        /\ n = AliveAround(state, c)
        /\ InputSymbol(n) = SymbolOf(n)

\* C14. Density classification: every cell has exactly 8 neighbours, itself
\* not among them; the number of Alive neighbours an agent counts is the
\* number of cells around it whose state is Alive, from 0 to 8; the symbol is
\* L for 0, 1, 2, M for 3, 4 and H for 5 and more (for every cell, on the
\* grid as it is between steps); and once all agents of a step have computed,
\* each has staged a candidate of the entry for its state and that symbol.
C14_DensityClasses ==
    /\ pc = "idle" => \A c \in Cells : Classified(c)
    /\ pc = "advance" =>
          \A a \in Cells :
              next_state[a] \in
                  Range(CurrentTable[<<snapshot[a], SymbolOf(AliveAround(snapshot, a))>>])

\* C14 witness: all agents of a step have computed on a grid where one cell
\* has 4 Alive neighbours, another has 5, and some neighbour is Dying or
\* Chaotic.
C14_Witness ==
    /\ pc = "advance"
    /\ \E a, b \in Cells :
          /\ AliveAround(snapshot, a) = 4
          /\ AliveAround(snapshot, b) = 5
    /\ \E d \in Cells : snapshot[d] \in {"Dying", "Chaotic"}

\* The candidates agent a had in the step under way or just done.
CandidatesOf(a) == CurrentTable[<<snapshot[a], SymbolOf(AliveAround(snapshot, a))>>]

\* Agent a has staged what the branch rule gives it.
BranchResolved(a) ==
    LET l == CandidatesOf(a)
    IN  /\ next_state[a] \in Range(l)
        /\ Len(l) = 1 => (next_state[a] = l[1] /\ drawn[a] = -1)
        /\ (Len(l) = 2 /\ branch_prob = 100) => next_state[a] = l[1]
        /\ (Len(l) = 2 /\ branch_prob = 0) => next_state[a] = l[2]

\* C15. Branch resolution: what an agent stages (the one whose step() has just
\* run, and all of them once the last has run) is a candidate of the entry
\* for its state and symbol: the only one if there is one; of two, the first
\* under branch probability 1 and the second under branch probability 0; and
\* under a branch probability in between, each of two candidates is what
\* some draw resolves to.
C15_BranchResolution ==
    /\ SomeStepRun => BranchResolved(LastRun)
    /\ pc = "advance" => \A a \in Cells : BranchResolved(a)
    /\ (branch_prob > 0 /\ branch_prob < 100) =>
          \A k \in Keys :
              LET l == CurrentTable[k]
              IN  Len(l) = 2 =>
                     /\ \E r \in DrawSet : Resolve(l, branch_prob, r) = l[1]
                     /\ \E r \in DrawSet : Resolve(l, branch_prob, r) = l[2]

\* C15 witness: under branch probability 0.5 two agents in the same state and
\* with the same symbol have staged the two candidates of their entry, one each.
C15_Witness ==
    /\ pc = "advance" /\ branch_prob = 50
    /\ \E a, b \in Cells :
          /\ CandidatesOf(a) = CandidatesOf(b)
          /\ snapshot[a] = snapshot[b]
          /\ Len(CandidatesOf(a)) = 2
          /\ next_state[a] = CandidatesOf(a)[1]
          /\ next_state[b] = CandidatesOf(a)[2]

\* Whether the model is as its constructor left it.
JustConstructed == pc = "idle" /\ steps = 0

\* C16. Initialization: the grid the constructor leaves holds only Alive and
\* Stable cells; all are Stable under initial_alive = 0 and all are Alive
\* under initial_alive = 1.
C16_InitialStates ==
    /\ JustConstructed => state = grids[1]
    /\ \A a \in Cells : grids[1][a] \in {"Alive", "Stable"}
    /\ initial_alive = 0 => AllIn(grids[1], "Stable")
    /\ initial_alive = 100 => AllIn(grids[1], "Alive")

\* C16 witness: a model just built with initial_alive = 1 from a seed whose
\* draws include the largest one.
C16_Witness ==
    /\ JustConstructed
    /\ initial_alive = 100
    /\ \E k \in 1 .. TapeLen : rng_tape[k] = 99
    /\ AllIn(state, "Alive")

\* C17. The base table is never changed: whatever the parameters and however
\* many get_transitions() and step() calls were made, BASE_TRANSITIONS holds
\* its 12 hand-written entries, two candidates each, in their written order.
C17_BaseTableKept ==
    /\ DOMAIN BASE_TRANSITIONS = Keys
    /\ Cardinality(DOMAIN BASE_TRANSITIONS) = 12
    /\ \A k \in Keys :
          /\ Len(BASE_TRANSITIONS[k]) = 2
          /\ BASE_TRANSITIONS[k] = BaseTable[k]

\* C17 witness: two steps are done with a table that both reorders and prunes,
\* so that what get_transitions() returns differs from the base table in
\* every entry that holds Chaotic.
C17_Witness ==
    /\ pc = "idle" /\ steps >= 2
    /\ disable_chaotic /\ chaos_bias = 80
    /\ \A k \in Keys :
          "Chaotic" \in Range(BaseTable[k]) => CurrentTable[k] # BASE_TRANSITIONS[k]

\* Agent a has staged what its draw resolved to, the override changing nothing.
NotOverridden(a) ==
    next_state[a] = Resolve(CandidatesOf(a), branch_prob, drawn[a])

\* C18. Every list of the table get_transitions() returns has 1 or 2
\* candidates, 1 only if Chaotic is disabled and the hand-written list holds
\* Chaotic; so random.choices never gets two weights for a list of another
\* length, the filter never leaves an empty list for the [Stable] fallback to
\* fill, and the override after the draw never changes what an agent stages.
C18_OneOrTwoCandidates ==
    /\ pc # "error"
    /\ \A k \in Keys :
          LET l == CurrentTable[k]
              kept == SelectSeq(Reorder(BASE_TRANSITIONS[k], chaos_bias), NotChaotic)
          IN  /\ Len(l) \in {1, 2}
              /\ Len(l) = 1 => (disable_chaotic /\ "Chaotic" \in Range(BaseTable[k]))
              /\ Draws(l) => WeightsFit(l)
              /\ kept # << >>
              /\ disable_chaotic => l = kept
              /\ \A r \in DrawSet :
                    Override(Resolve(l, branch_prob, r), disable_chaotic)
                        = Resolve(l, branch_prob, r)
    /\ SomeStepRun => NotOverridden(LastRun)
    /\ pc = "advance" => \A a \in Cells : NotOverridden(a)

\* C18 witness: with Chaotic disabled all agents of a step have computed, one
\* from a list pruned to a single candidate and one by a draw between two.
C18_Witness ==
    /\ pc = "advance" /\ disable_chaotic
    /\ \E a, b \in Cells :
          /\ Len(CandidatesOf(a)) = 1 /\ drawn[a] = -1
          /\ Len(CandidatesOf(b)) = 2 /\ drawn[b] # -1

NoneChaotic(st) == \A a \in Cells : st[a] # "Chaotic"

\* C19. Chaotic disabled on a running model: once a step() has been completed
\* since the last parameter change and the flag is on, no cell is Chaotic, at
\* the end of that step and through every later one; with the flag on no
\* agent stages Chaotic (the one whose step() has just run, and all of them
\* once the last has run), and no entry for a Chaotic cell holds Chaotic.
C19_ChaoticDiesOut ==
    disable_chaotic =>
        /\ steps > changed_at => NoneChaotic(state)
        /\ SomeStepRun => next_state[LastRun] # "Chaotic"
        /\ pc = "advance" => NoneChaotic(next_state)
        /\ \A y \in Symbols : "Chaotic" \notin Range(CurrentTable[<<"Chaotic", y>>])

\* C19 witness: the flag was switched on when some cell was Chaotic, one of
\* them with the symbol H, and a step has been completed since.
C19_Witness ==
    /\ pc = "idle" /\ disable_chaotic /\ changes = 1 /\ changed_at >= 1
    /\ steps > changed_at
    /\ \E a \in Cells :
          /\ grids[changed_at + 1][a] = "Chaotic"
          /\ SymbolOf(AliveAround(grids[changed_at + 1], a)) = "H"

====
